---- MODULE Spec2Model ----
(***************************************************************************)
(* Composite stress-strain engine: the dataclass model of                  *)
(* src/stress_strain_modeling (CompositeModel, analysis procedures) and    *)
(* the earlier object-oriented variant of src/model.py, src/analysis.py.   *)
(*                                                                         *)
(* Numbers are binary floating-point values <<m, e>> = m * 2^e with a      *)
(* significand of Prec bits, rounded to nearest, ties to even, after every *)
(* arithmetic operation, as numpy's float64 does with 53 bits.  The        *)
(* exponent is unbounded (no overflow, underflow, infinities or NaN).      *)
(***************************************************************************)
EXTENDS Integers, Sequences, FiniteSets, TLC

VARIABLES model, ret, built

vars == <<model, ret, built>>

(***************************************************************************)
(* Bounds of the model.                                                    *)
(***************************************************************************)
Prec == 5
MaxAngles == 2
MaxStrain == 2
MaxVfs == 2
MaxIter == 2

MaxPoints == 3

(***************************************************************************)
(* Floating-point arithmetic.                                              *)
(***************************************************************************)
Abs(i) == IF i < 0 THEN 0 - i ELSE i

Sgn(i) == IF i < 0 THEN 0 - 1 ELSE IF i = 0 THEN 0 ELSE 1

Pow2(k) == IF k <= 0 THEN 1 ELSE 2 ^ k

\* number of bits of the natural number a (0 for 0)
RECURSIVE BitLen(_)
BitLen(a) == IF a = 0 THEN 0 ELSE 1 + BitLen(a \div 2)

\* canonical form: the significand is odd, or the value is <<0, 0>>
RECURSIVE Norm(_, _)
Norm(m, e) ==
  IF m = 0 THEN <<0, 0>>
  ELSE IF m % 2 = 0 THEN Norm(m \div 2, e + 1)
  ELSE <<m, e>>

\* the integer m * 2^e rounded to Prec significant bits, ties to even
RoundInt(m, e) ==
  LET a == Abs(m)
      k == BitLen(a) - Prec
  IN  IF k <= 0 THEN Norm(m, e)
      ELSE LET q == a \div Pow2(k)
               r == a % Pow2(k)
               half == Pow2(k - 1)
               up == r > half \/ (r = half /\ q % 2 = 1)
               q1 == IF up THEN q + 1 ELSE q
           IN  Norm(Sgn(m) * q1, e + k)

\* the rational (n / d) * 2^e, d > 0, rounded to Prec bits: the quotient is
\* computed to Prec + 2 bits at least, and a nonzero remainder is kept as a
\* sticky bit below them
RoundRat(n, d, e) ==
  LET a == Abs(n)
      s == Prec + 2 + BitLen(d)
      q == (a * Pow2(s)) \div d
      r == (a * Pow2(s)) % d
      st == IF r = 0 THEN 0 ELSE 1
  IN  RoundInt(Sgn(n) * (2 * q + st), e - s - 1)

\* a decimal literal n / d of the program text, as the float it denotes
Lit(n, d) == RoundRat(n, d, 0)

Zero == <<0, 0>>

One == <<1, 0>>

FMul(x, y) == RoundInt(x[1] * y[1], x[2] + y[2])

\* both significands on the smaller of the two exponents
AlignL(x, y) == x[1] * Pow2(x[2] - (IF x[2] < y[2] THEN x[2] ELSE y[2]))

FAdd(x, y) ==
  IF x[1] = 0 THEN y
  ELSE IF y[1] = 0 THEN x
  ELSE RoundInt(AlignL(x, y) + AlignL(y, x), IF x[2] < y[2] THEN x[2] ELSE y[2])

FNeg(x) == <<0 - x[1], x[2]>>

FSub(x, y) == FAdd(x, FNeg(y))

\* x / y for y # 0
FDiv(x, y) == RoundRat(x[1] * Sgn(y[1]), Abs(y[1]), x[2] - y[2])

\* sign of x - y, computed exactly
Cmp(x, y) ==
  IF x[1] = 0 THEN 0 - Sgn(y[1])
  ELSE IF y[1] = 0 THEN Sgn(x[1])
  ELSE IF Sgn(x[1]) # Sgn(y[1]) THEN Sgn(x[1])
  ELSE LET bx == BitLen(Abs(x[1])) + x[2]
           by == BitLen(Abs(y[1])) + y[2]
       IN  IF bx # by THEN (IF bx > by THEN Sgn(x[1]) ELSE 0 - Sgn(x[1]))
           ELSE Sgn(AlignL(x, y) - AlignL(y, x))

FLe(x, y) == Cmp(x, y) <= 0

FLt(x, y) == Cmp(x, y) < 0

FMax(x, y) == IF FLt(x, y) THEN y ELSE x


(***************************************************************************)
(* numpy helpers.                                                          *)
(***************************************************************************)
SeqsUpTo(S, n) == UNION {[1..k -> S] : k \in 0..n}

\* a local variable: v is evaluated once and Body applied to its value
Local(v, Body(_)) == CHOOSE r \in {Body(x) : x \in {v}} : TRUE

\* np.sum of a 1-D array of fewer than 8 elements: a left-to-right loop
RECURSIVE SumTo(_, _)
SumTo(xs, n) == IF n = 0 THEN Zero ELSE FAdd(SumTo(xs, n - 1), xs[n])

np_sum(xs) == SumTo(xs, Len(xs))

\* np.array of a list of equal-length 1-D arrays: the empty list gives the
\* 1-D array of shape (0,), any other list the 2-D array (rows, columns)
np_array(rows) ==
  IF Len(rows) = 0 THEN [shape |-> <<0>>, data |-> <<>>]
  ELSE [shape |-> <<Len(rows), Len(rows[1])>>, data |-> rows]

\* np.diff(x): the differences of neighbours
np_diff(x) == [i \in 1..(IF Len(x) = 0 THEN 0 ELSE Len(x) - 1) |-> FSub(x[i + 1], x[i])]

\* interior point i of np.gradient on uniform spacing dx: central difference
grad_uniform(f, dx, i) == FDiv(FSub(f[i + 1], f[i - 1]), FMul(<<1, 1>>, dx))

\* interior point i of np.gradient on the spacings dx1 before and dx2 after
grad_nonuniform(f, dx1, dx2, i) ==
  LET a == FDiv(FNeg(dx2), FMul(dx1, FAdd(dx1, dx2)))
      b == FDiv(FSub(dx2, dx1), FMul(dx1, dx2))
      c == FDiv(dx1, FMul(dx2, FAdd(dx1, dx2)))
  IN  FAdd(FAdd(FMul(a, f[i - 1]), FMul(b, f[i])), FMul(c, f[i + 1]))

\* variant: the central difference divided by dx, not by 2 * dx
np_gradient_noHalf(f, x) ==
  IF Len(x) # Len(f) THEN [err |-> "ValueError: distances must match the length", val |-> <<>>]
  ELSE IF Len(x) < 2 THEN [err |-> "IndexError: index 0 is out of bounds", val |-> <<>>]
  ELSE LET n == Len(x)
           diffx == np_diff(x)
           uniform == \A i \in 1..(n - 1) : diffx[i] = diffx[1]
       IN  [err |-> "none",
            val |-> [i \in 1..n |->
                       IF i = 1 THEN FDiv(FSub(f[2], f[1]), diffx[1])
                       ELSE IF i = n THEN FDiv(FSub(f[n], f[n - 1]), diffx[n - 1])
                       ELSE IF uniform THEN FDiv(FSub(f[i + 1], f[i - 1]), diffx[1])
                       ELSE grad_nonuniform(f, diffx[i - 1], diffx[i], i)]]

\* variant: fewer than two points give an empty derivative
np_gradient_short(f, x) ==
  IF Len(x) # Len(f) THEN [err |-> "ValueError: distances must match the length", val |-> <<>>]
  ELSE IF Len(x) < 2 THEN [err |-> "none", val |-> <<>>]
  ELSE LET n == Len(x)
           diffx == np_diff(x)
           uniform == \A i \in 1..(n - 1) : diffx[i] = diffx[1]
       IN  [err |-> "none",
            val |-> [i \in 1..n |->
                       IF i = 1 THEN FDiv(FSub(f[2], f[1]), diffx[1])
                       ELSE IF i = n THEN FDiv(FSub(f[n], f[n - 1]), diffx[n - 1])
                       ELSE IF uniform THEN grad_uniform(f, diffx[1], i)
                       ELSE grad_nonuniform(f, diffx[i - 1], diffx[i], i)]]

\* np.gradient(f, x) for 1-D f and coordinates x, edge_order 1: the lengths
\* must agree; diffx[0] is read, which fails on fewer than two points; equal
\* spacings are reduced to the scalar case
np_gradient(f, x) ==
  IF Len(x) # Len(f) THEN [err |-> "ValueError: distances must match the length", val |-> <<>>]
  ELSE IF Len(x) < 2 THEN [err |-> "IndexError: index 0 is out of bounds", val |-> <<>>]
  ELSE LET n == Len(x)
           diffx == np_diff(x)
           uniform == \A i \in 1..(n - 1) : diffx[i] = diffx[1]
       IN  [err |-> "none",
            val |-> [i \in 1..n |->
                       IF i = 1 THEN FDiv(FSub(f[2], f[1]), diffx[1])
                       ELSE IF i = n THEN FDiv(FSub(f[n], f[n - 1]), diffx[n - 1])
                       ELSE IF uniform THEN grad_uniform(f, diffx[1], i)
                       ELSE grad_nonuniform(f, diffx[i - 1], diffx[i], i)]]

\* analysis.calculate_tangent_modulus (both variants): np.gradient(stress, strain)
calculate_tangent_modulus(strain, stress) == np_gradient(stress, strain)

\* np.cos(np.deg2rad(a)) and np.sin(np.deg2rad(a)) for the angles of the
\* model, taken as the correctly rounded cosine and sine of a degrees
\* (99/140 approximates sqrt(2)/2 beyond the precision of the model)
cos_deg(a) ==
  CASE a = 0 -> One
    [] a = 45 -> Lit(99, 140)
    [] a = 90 -> Zero

sin_deg(a) ==
  CASE a = 0 -> Zero
    [] a = 45 -> Lit(99, 140)
    [] a = 90 -> One

(***************************************************************************)
(* Outcomes of a call: a returned value or a raised exception.             *)
(***************************************************************************)
NoErr == "none"

Return(v) == [err |-> NoErr, val |-> v]

Raise(e) == [err |-> e, val |-> <<>>]

ErrLength == "ValueError: Angles and weights must have the same length"

ErrVf == "ValueError: Volume fraction (vf) must be between 0.0 and 1.0"

ErrWeighting == "ValueError: weighting must be 'cos4' or 'cos2'"

ErrUnbound == "UnboundLocalError: stress"

NoModel == [cls |-> "none"]

NoMaterial == [name |-> "none"]

(***************************************************************************)
(* CompositeMaterial: the defaults of the dataclass, and a second material *)
(* with other strength limits.                                             *)
(***************************************************************************)
DefaultMaterial ==
  [name |-> "default",
   E_f |-> Lit(230000, 1), E_m |-> Lit(3000, 1),
   nu_f |-> Lit(2, 10), nu_m |-> Lit(35, 100),
   G_f |-> Lit(50000, 1), G_m |-> Lit(1200, 1),
   X_t |-> Lit(2000, 1), X_c |-> Lit(1000, 1),
   Y_t |-> Lit(50, 1), Y_c |-> Lit(150, 1), S |-> Lit(70, 1)]

OtherMaterial ==
  [DefaultMaterial EXCEPT !.name = "other",
                          !.X_t = Lit(1000, 1), !.X_c = Lit(3000, 1)]

Materials == {DefaultMaterial, OtherMaterial}

\* CompositeMaterial(field = value): the generated __init__ of the dataclass
\* stores what it is given; there is no __post_init__
CompositeMaterial(field, value) ==
  Return([DefaultMaterial EXCEPT !.name = "custom", ![field] = value])

(***************************************************************************)
(* CompositeModel: construction and validation.                            *)
(***************************************************************************)
\* variant: the bounds themselves rejected
VfInRange_strict(vf) == FLt(Zero, vf) /\ FLt(vf, One)

\* the range check `0.0 <= self.vf <= 1.0`
VfInRange(vf) == FLe(Zero, vf) /\ FLe(vf, One)

\* variant: the two validations in the other order
CompositeModel_vfFirst(angles, weights, vf, material, E_fiber_factor) ==
  IF ~(FLe(Zero, vf) /\ FLe(vf, One)) THEN Raise(ErrVf)
  ELSE IF Len(angles) # Len(weights) THEN Raise(ErrLength)
  ELSE Return([cls |-> "dataclass", angles |-> angles, weights |-> weights,
               vf |-> vf, material |-> material,
               E_fiber_factor |-> E_fiber_factor])

\* @dataclass CompositeModel(...) followed by __post_init__
CompositeModel(angles, weights, vf, material, E_fiber_factor) ==
  IF Len(angles) # Len(weights) THEN Raise(ErrLength)
  ELSE IF ~VfInRange(vf) THEN Raise(ErrVf)
  ELSE Return([cls |-> "dataclass", angles |-> angles, weights |-> weights,
               vf |-> vf, material |-> material,
               E_fiber_factor |-> E_fiber_factor])

\* src/model.py CompositeModel.__init__ (no material)
LegacyCompositeModel(angles, weights, vf, E_fiber_factor) ==
  IF Len(angles) # Len(weights) THEN Raise(ErrLength)
  ELSE IF ~VfInRange(vf) THEN Raise(ErrVf)
  ELSE Return([cls |-> "legacy", angles |-> angles, weights |-> weights,
               vf |-> vf, material |-> NoMaterial,
               E_fiber_factor |-> E_fiber_factor])

\* default E_fiber_factor of the dataclass and of the earlier class
DefaultE == Lit(525000, 1)

LegacyDefaultE == Lit(525, 1)

(***************************************************************************)
(* The weighted (empirical) stress law.                                    *)
(***************************************************************************)
\* cos_sq = np.cos(angles_rad)**2
cos_sq(angles) == [i \in 1..Len(angles) |-> FMul(cos_deg(angles[i]), cos_deg(angles[i]))]

\* variant: an unrecognized weighting falls back to cos4
orientation_factor_default(angles, weighting) ==
  IF weighting = "cos2" THEN Return(cos_sq(angles))
  ELSE Return([i \in 1..Len(angles) |-> FMul(cos_sq(angles)[i], cos_sq(angles)[i])])

\* the branch on `weighting`: the orientation factors, or the ValueError
orientation_factor(angles, weighting) ==
  IF weighting = "cos4"
    THEN Return([i \in 1..Len(angles) |-> FMul(cos_sq(angles)[i], cos_sq(angles)[i])])
  ELSE IF weighting = "cos2" THEN Return(cos_sq(angles))
  ELSE Raise(ErrWeighting)

\* elementwise product of two arrays of the same length
ArrMul(xs, ys) == [i \in 1..Len(xs) |-> FMul(xs[i], ys[i])]

\* scalar * array
Scale(c, xs) == [j \in 1..Len(xs) |-> FMul(c, xs[j])]

\* variant: the modulus applied to 1 + strain
compute_stress_weighted_affine(self, strain, weighting) ==
  LET of == orientation_factor(self.angles, weighting)
  IN  IF of.err # NoErr THEN of
      ELSE LET weighted_orientation == np_sum(ArrMul(self.weights, of.val))
               E_total == FMul(FMul(self.E_fiber_factor, self.vf), weighted_orientation)
           IN  Return([j \in 1..Len(strain) |-> FMul(E_total, FAdd(One, strain[j]))])

\* variant: the volume fraction left out of the modulus
compute_stress_weighted_noVf(self, strain, weighting) ==
  LET of == orientation_factor(self.angles, weighting)
  IN  IF of.err # NoErr THEN of
      ELSE LET weighted_orientation == np_sum(ArrMul(self.weights, of.val))
               E_total == FMul(self.E_fiber_factor, weighted_orientation)
           IN  Return(Scale(E_total, strain))

\* CompositeModel.compute_stress_weighted
compute_stress_weighted(self, strain, weighting) ==
  LET of == orientation_factor(self.angles, weighting)
  IN  IF of.err # NoErr THEN of
      ELSE LET weighted_orientation == np_sum(ArrMul(self.weights, of.val))
               E_total == FMul(FMul(self.E_fiber_factor, self.vf), weighted_orientation)
           IN  Return(Scale(E_total, strain))

\* src/model.py CompositeModel.compute_stress
compute_stress(self, strain, weighting) ==
  LET of == orientation_factor(self.angles, weighting)
  IN  IF of.err # NoErr THEN of
      ELSE LET weighted_orientation == np_sum(ArrMul(self.weights, of.val))
               E_total == FMul(FMul(self.E_fiber_factor, self.vf), weighted_orientation)
               stress == Scale(E_total, strain)
           IN  Return(stress)

\* one entry of qf_cos_sq_phi in legacy/original_script.py, for the strain i:
\* ef = x*i*100*vf, qf = 5.25*ef, then qf*cos_sq and that times phi
script_term(x, phi, vf, i) ==
  LET ef == FMul(FMul(FMul(x, i), Lit(100, 1)), vf)
      qf == FMul(Lit(525, 100), ef)
  IN  FMul(FMul(qf, x), phi)

\* variant: the first cell of the script, which has no vf
original_script_cell8(beta, phi, vf, strain) ==
  [j \in 1..Len(strain) |->
     np_sum([k \in 1..(IF Len(beta) < Len(phi) THEN Len(beta) ELSE Len(phi)) |->
               script_term(cos_sq(beta)[k], phi[k], One, strain[j])])]

\* the second cell of legacy/original_script.py: the list `modulus` it plots;
\* zip stops at the shorter list and sum() adds from the left
original_script(beta, phi, vf, strain) ==
  [j \in 1..Len(strain) |->
     np_sum([k \in 1..(IF Len(beta) < Len(phi) THEN Len(beta) ELSE Len(phi)) |->
               script_term(cos_sq(beta)[k], phi[k], vf, strain[j])])]

\* variant: the weights left out of the per-angle terms
compute_stress_components_noWeights(self, strain, weighting) ==
  LET of == orientation_factor(self.angles, weighting)
  IN  IF of.err # NoErr THEN of
      ELSE LET angle_terms ==
                 [i \in 1..Len(self.angles) |->
                    FMul(FMul(self.E_fiber_factor, self.vf), of.val[i])]
               components ==
                 [i \in 1..Len(self.angles) |-> Scale(angle_terms[i], strain)]
           IN  Return([shape |-> <<Len(self.angles), Len(strain)>>,
                       data |-> components])

\* src/model.py CompositeModel.compute_stress_components: the matrix of
\* shape (n_angles, n_strain)
compute_stress_components(self, strain, weighting) ==
  LET of == orientation_factor(self.angles, weighting)
  IN  IF of.err # NoErr THEN of
      ELSE LET angle_terms ==
                 [i \in 1..Len(self.angles) |->
                    FMul(FMul(FMul(self.E_fiber_factor, self.vf), self.weights[i]),
                         of.val[i])]
               components ==
                 [i \in 1..Len(self.angles) |-> Scale(angle_terms[i], strain)]
           IN  Return([shape |-> <<Len(self.angles), Len(strain)>>,
                       data |-> components])

(***************************************************************************)
(* The Halpin-Tsai model: rule of mixtures and Halpin-Tsai for the ply     *)
(* constants, the off-axis modulus of every angle, and their weighted sum. *)
(***************************************************************************)
Two == <<1, 1>>

\* x**4 with an integer exponent: the power function, rounded once
FPow4(x) == RoundInt(x[1] * x[1] * x[1] * x[1], 4 * x[2])

ErrZeroDivision == "ZeroDivisionError: float division by zero"

\* x / y of two Python floats where y # 0; the callers test y first
PyDiv(x, y) == IF y = Zero THEN Zero ELSE FDiv(x, y)

\* E1, E2, nu12, G12 and their reciprocals in compute_halpin_tsai_modulus:
\* Python floats, so a zero denominator raises ZeroDivisionError
ply_constants(self) ==
  LET E_f == self.material.E_f
      E_m == self.material.E_m
      G_f == self.material.G_f
      G_m == self.material.G_m
      rest == FSub(One, self.vf)
      eta_den == FAdd(PyDiv(E_f, E_m), Two)
      eta == PyDiv(FSub(PyDiv(E_f, E_m), One), eta_den)
      E2_den == FSub(One, FMul(eta, self.vf))
      eta_G_den == FAdd(PyDiv(G_f, G_m), One)
      eta_G == PyDiv(FSub(PyDiv(G_f, G_m), One), eta_G_den)
      G12_den == FSub(One, FMul(eta_G, self.vf))
      E1 == FAdd(FMul(E_f, self.vf), FMul(E_m, rest))
      E2 == PyDiv(FMul(E_m, FAdd(One, FMul(FMul(Two, eta), self.vf))), E2_den)
      G12 == PyDiv(FMul(G_m, FAdd(One, FMul(FMul(One, eta_G), self.vf))), G12_den)
  IN  [err |-> IF Zero \in {E_m, eta_den, E2_den, G_m, eta_G_den, G12_den, E1, E2, G12}
                 THEN ErrZeroDivision ELSE NoErr,
       E1 |-> E1, E2 |-> E2, G12 |-> G12,
       nu12 |-> FAdd(FMul(self.material.nu_f, self.vf), FMul(self.material.nu_m, rest)),
       inv_E1 |-> PyDiv(One, E1), inv_E2 |-> PyDiv(One, E2), inv_G12 |-> PyDiv(One, G12)]

\* Ex_i = 1.0 / (term1 + term2 + term3) for the angle a
Ex_of(a, k) ==
  LET c == cos_deg(a)
      s == sin_deg(a)
      c2 == FMul(c, c)
      s2 == FMul(s, s)
      term1 == FMul(FPow4(c), k.inv_E1)
      term2 == FMul(FMul(c2, s2), FSub(k.inv_G12, FMul(FMul(Two, k.nu12), k.inv_E1)))
      term3 == FMul(FPow4(s), k.inv_E2)
  IN  FDiv(One, FAdd(FAdd(term1, term2), term3))

\* variant: the series (Reuss) combination 1 / sum(weights / Ex_i)
compute_halpin_tsai_modulus_reuss(self) ==
  Local(ply_constants(self), LAMBDA k :
    IF k.err # NoErr THEN Raise(k.err)
    ELSE IF Len(self.angles) = 0 THEN Return(Zero)
    ELSE Return(FDiv(One, np_sum([i \in 1..Len(self.angles) |->
                                    FDiv(self.weights[i], Ex_of(self.angles[i], k))]))))

\* CompositeModel.compute_halpin_tsai_modulus
compute_halpin_tsai_modulus(self) ==
  Local(ply_constants(self), LAMBDA k :
    IF k.err # NoErr THEN Raise(k.err)
    ELSE Return(np_sum(ArrMul(self.weights,
                              [i \in 1..Len(self.angles) |-> Ex_of(self.angles[i], k)]))))

\* CompositeModel.compute_stress_halpin_tsai
compute_stress_halpin_tsai(self, strain) ==
  Local(compute_halpin_tsai_modulus(self), LAMBDA E_eff :
    IF E_eff.err # NoErr THEN E_eff ELSE Return(Scale(E_eff.val, strain)))

(***************************************************************************)
(* Tsai-Hill failure index.                                                *)
(***************************************************************************)
\* variant: the tensile strengths used whatever the sign of the stress
compute_tsai_hill_tensile(self, stress_applied, angle_deg) ==
  LET c == cos_deg(angle_deg)
      s == sin_deg(angle_deg)
      sigma_1 == FMul(stress_applied, FMul(c, c))
      sigma_2 == FMul(stress_applied, FMul(s, s))
      tau_12 == FMul(FMul(FNeg(stress_applied), s), c)
      X == self.material.X_t
      Y == self.material.Y_t
      S == self.material.S
      q1 == FDiv(sigma_1, X)
      q3 == FDiv(sigma_2, Y)
      q4 == FDiv(tau_12, S)
      term1 == FMul(q1, q1)
      term2 == FDiv(FNeg(FMul(sigma_1, sigma_2)), FMul(X, X))
      term3 == FMul(q3, q3)
      term4 == FMul(q4, q4)
  IN  Return(FAdd(FAdd(FAdd(term1, term2), term3), term4))

compute_tsai_hill(self, stress_applied, angle_deg) ==
  LET c == cos_deg(angle_deg)
      s == sin_deg(angle_deg)
      sigma_1 == FMul(stress_applied, FMul(c, c))
      sigma_2 == FMul(stress_applied, FMul(s, s))
      tau_12 == FMul(FMul(FNeg(stress_applied), s), c)
      X == IF FLe(Zero, sigma_1) THEN self.material.X_t ELSE self.material.X_c
      Y == IF FLe(Zero, sigma_2) THEN self.material.Y_t ELSE self.material.Y_c
      S == self.material.S
      q1 == FDiv(sigma_1, X)
      q3 == FDiv(sigma_2, Y)
      q4 == FDiv(tau_12, S)
      term1 == FMul(q1, q1)
      term2 == FDiv(FNeg(FMul(sigma_1, sigma_2)), FMul(X, X))
      term3 == FMul(q3, q3)
      term4 == FMul(q4, q4)
  IN  Return(FAdd(FAdd(FAdd(term1, term2), term3), term4))

(***************************************************************************)
(* Analysis procedures: volume-fraction sweep.                             *)
(***************************************************************************)
\* results[key] = value on a dict kept as the sequence of its items in
\* insertion order: an existing key keeps its place and takes the new value
DictSet(d, key, value) ==
  IF \E i \in 1..Len(d) : d[i][1] = key
    THEN [i \in 1..Len(d) |-> IF d[i][1] = key THEN <<key, value>> ELSE d[i]]
    ELSE Append(d, <<key, value>>)

DictKeys(d) == [i \in 1..Len(d) |-> d[i][1]]

\* the for loop of vf_sweep after n of the vfs: an exception ends it
RECURSIVE vf_sweep_loop(_, _, _, _, _, _)
vf_sweep_loop(angles, weights, vfs, strain, model_type, n) ==
  IF n = 0 THEN [err |-> NoErr, results |-> <<>>, built |-> <<>>]
  ELSE LET prev == vf_sweep_loop(angles, weights, vfs, strain, model_type, n - 1)
           made == CompositeModel(angles, weights, vfs[n], DefaultMaterial, DefaultE)
       IN  IF prev.err # NoErr THEN prev
           ELSE IF made.err # NoErr THEN [prev EXCEPT !.err = made.err]
           ELSE [err |-> NoErr,
                 results |->
                   IF model_type = "weighted"
                     THEN DictSet(prev.results, vfs[n],
                                  compute_stress_weighted(made.val, strain, "cos4").val)
                     ELSE prev.results,
                 built |-> Append(prev.built, made.val)]

\* variant: the stress curves collected in a list, keyed by position
RECURSIVE vf_sweep_list(_, _, _, _, _, _)
vf_sweep_list(angles, weights, vfs, strain, model_type, n) ==
  IF n = 0 THEN [err |-> NoErr, results |-> <<>>, built |-> <<>>]
  ELSE LET prev == vf_sweep_list(angles, weights, vfs, strain, model_type, n - 1)
           made == CompositeModel(angles, weights, vfs[n], DefaultMaterial, DefaultE)
       IN  IF prev.err # NoErr THEN prev
           ELSE IF made.err # NoErr THEN [prev EXCEPT !.err = made.err]
           ELSE [err |-> NoErr,
                 results |->
                   Append(prev.results,
                          <<vfs[n], compute_stress_weighted(made.val, strain, "cos4").val>>),
                 built |-> Append(prev.built, made.val)]

vf_sweep_noMerge(angles, weights, vfs, strain, model_type) ==
  vf_sweep_list(angles, weights, vfs, strain, model_type, Len(vfs))

\* stress_strain_modeling.analysis.vf_sweep: the loop run to its end
vf_sweep(angles, weights, vfs, strain, model_type) ==
  vf_sweep_loop(angles, weights, vfs, strain, model_type, Len(vfs))

\* src/analysis.py vf_sweep
RECURSIVE legacy_vf_sweep_loop(_, _, _, _, _, _)
legacy_vf_sweep_loop(angles, weights, vfs, strain, E_fiber_factor, n) ==
  IF n = 0 THEN [err |-> NoErr, results |-> <<>>, built |-> <<>>]
  ELSE LET prev == legacy_vf_sweep_loop(angles, weights, vfs, strain, E_fiber_factor, n - 1)
           made == LegacyCompositeModel(angles, weights, vfs[n], E_fiber_factor)
       IN  IF prev.err # NoErr THEN prev
           ELSE IF made.err # NoErr THEN [prev EXCEPT !.err = made.err]
           ELSE [err |-> NoErr,
                 results |-> DictSet(prev.results, vfs[n],
                                     compute_stress(made.val, strain, "cos4").val),
                 built |-> Append(prev.built, made.val)]

legacy_vf_sweep(angles, weights, vfs, strain, E_fiber_factor) ==
  legacy_vf_sweep_loop(angles, weights, vfs, strain, E_fiber_factor, Len(vfs))

\* the for loop of generate_heatmap_data after n of vf_range
RECURSIVE heatmap_loop(_, _, _, _, _)
heatmap_loop(angles, weights, vf_range, strain, n) ==
  IF n = 0 THEN [err |-> NoErr, results |-> <<>>, built |-> <<>>]
  ELSE
    Local(heatmap_loop(angles, weights, vf_range, strain, n - 1), LAMBDA prev :
      IF prev.err # NoErr THEN prev
      ELSE
        Local(CompositeModel(angles, weights, vf_range[n], DefaultMaterial, DefaultE),
              LAMBDA made :
          IF made.err # NoErr THEN [prev EXCEPT !.err = made.err]
          ELSE [err |-> NoErr,
                results |-> Append(prev.results,
                                   compute_stress_weighted(made.val, strain, "cos4").val),
                built |-> Append(prev.built, made.val)]))

\* variant: the rows computed before an invalid vf are returned
generate_heatmap_data_partial(angles, weights, vf_range, strain) ==
  Local(heatmap_loop(angles, weights, vf_range, strain, Len(vf_range)), LAMBDA run :
    [run EXCEPT !.err = NoErr])

\* stress_strain_modeling.analysis.generate_heatmap_data
generate_heatmap_data(angles, weights, vf_range, strain) ==
  Local(heatmap_loop(angles, weights, vf_range, strain, Len(vf_range)), LAMBDA run :
    [run EXCEPT !.results = IF run.err = NoErr THEN np_array(run.results) ELSE <<>>])

\* src/analysis.py generate_heatmap_data
RECURSIVE legacy_heatmap_loop(_, _, _, _, _, _)
legacy_heatmap_loop(angles, weights, vf_range, strain, E_fiber_factor, n) ==
  IF n = 0 THEN [err |-> NoErr, results |-> <<>>, built |-> <<>>]
  ELSE
    Local(legacy_heatmap_loop(angles, weights, vf_range, strain, E_fiber_factor, n - 1),
          LAMBDA prev :
      IF prev.err # NoErr THEN prev
      ELSE
        Local(LegacyCompositeModel(angles, weights, vf_range[n], E_fiber_factor),
              LAMBDA made :
          IF made.err # NoErr THEN [prev EXCEPT !.err = made.err]
          ELSE [err |-> NoErr,
                results |-> Append(prev.results,
                                   compute_stress(made.val, strain, "cos4").val),
                built |-> Append(prev.built, made.val)]))

legacy_generate_heatmap_data(angles, weights, vf_range, strain, E_fiber_factor) ==
  Local(legacy_heatmap_loop(angles, weights, vf_range, strain, E_fiber_factor,
                            Len(vf_range)), LAMBDA run :
    [run EXCEPT !.results = IF run.err = NoErr THEN np_array(run.results) ELSE <<>>])

\* what the caller gets from a run of a procedure: its value, or its exception
Outcome(run) == IF run.err # NoErr THEN Raise(run.err) ELSE Return(run.results)

(***************************************************************************)
(* Analysis procedures: Monte Carlo over the orientation weights.  noise   *)
(* is the sequence of the vectors np.random.normal returns, one per trial. *)
(***************************************************************************)
\* the weights handed to the model of one trial: perturbed, floored at 0,
\* and rescaled to the base sum when their sum is positive
perturb(base_weights, noise) ==
  Local(np_sum(base_weights), LAMBDA target_sum :
  Local([i \in 1..Len(base_weights) |->
           FMax(FMul(base_weights[i], FAdd(One, noise[i])), Zero)], LAMBDA floored :
  Local(np_sum(floored), LAMBDA current_sum :
    IF FLt(Zero, current_sum)
      THEN [i \in 1..Len(floored) |-> FMul(FDiv(floored[i], current_sum), target_sum)]
      ELSE floored)))

\* the for loop of monte_carlo_uncertainty after n trials
RECURSIVE mc_loop(_, _, _, _, _, _, _)
mc_loop(angles, weights, vf, strain, noise, model_type, n) ==
  IF n = 0 THEN [err |-> NoErr, results |-> <<>>, built |-> <<>>]
  ELSE
    Local(mc_loop(angles, weights, vf, strain, noise, model_type, n - 1), LAMBDA prev :
      IF prev.err # NoErr THEN prev
      ELSE
        Local(CompositeModel(angles, perturb(weights, noise[n]), vf,
                             DefaultMaterial, DefaultE), LAMBDA made :
          IF made.err # NoErr THEN [prev EXCEPT !.err = made.err]
          ELSE IF model_type # "weighted"
            THEN [prev EXCEPT !.err = ErrUnbound, !.built = Append(prev.built, made.val)]
          ELSE [err |-> NoErr,
                results |-> Append(prev.results,
                                   compute_stress_weighted(made.val, strain, "cos4").val),
                built |-> Append(prev.built, made.val)]))

\* variant: any other model_type is treated as 'weighted'
monte_carlo_uncertainty_fallback(angles, weights, vf, strain, noise, model_type) ==
  Local(mc_loop(angles, weights, vf, strain, noise, "weighted", Len(noise)), LAMBDA run :
    [run EXCEPT !.results = IF run.err = NoErr THEN np_array(run.results) ELSE <<>>])

\* stress_strain_modeling.analysis.monte_carlo_uncertainty, n_iter = Len(noise)
monte_carlo_uncertainty(angles, weights, vf, strain, noise, model_type) ==
  Local(mc_loop(angles, weights, vf, strain, noise, model_type, Len(noise)), LAMBDA run :
    [run EXCEPT !.results = IF run.err = NoErr THEN np_array(run.results) ELSE <<>>])

\* src/analysis.py monte_carlo_uncertainty
RECURSIVE legacy_mc_loop(_, _, _, _, _, _, _)
legacy_mc_loop(angles, weights, vf, strain, noise, E_fiber_factor, n) ==
  IF n = 0 THEN [err |-> NoErr, results |-> <<>>, built |-> <<>>]
  ELSE
    Local(legacy_mc_loop(angles, weights, vf, strain, noise, E_fiber_factor, n - 1),
          LAMBDA prev :
      IF prev.err # NoErr THEN prev
      ELSE
        Local(LegacyCompositeModel(angles, perturb(weights, noise[n]), vf,
                                   E_fiber_factor), LAMBDA made :
          IF made.err # NoErr THEN [prev EXCEPT !.err = made.err]
          ELSE [err |-> NoErr,
                results |-> Append(prev.results,
                                   compute_stress(made.val, strain, "cos4").val),
                built |-> Append(prev.built, made.val)]))

legacy_monte_carlo_uncertainty(angles, weights, vf, strain, noise, E_fiber_factor) ==
  Local(legacy_mc_loop(angles, weights, vf, strain, noise, E_fiber_factor, Len(noise)),
        LAMBDA run :
    [run EXCEPT !.results = IF run.err = NoErr THEN np_array(run.results) ELSE <<>>])

(***************************************************************************)
(* Inputs of the calls.                                                    *)
(***************************************************************************)
AngleVals == {0, 45, 90}

WeightVals == {One, Lit(3, 10)}

VfVals == {Lit(-1, 2), Zero, Lit(1, 10), One, Lit(3, 2)}

EVals == {LegacyDefaultE, DefaultE}

StrainVals == {Lit(1, 100), Lit(3, 1)}

Weightings == {"cos4", "cos2", "cos3"}

StressVals ==
  {Lit(100, 1), Lit(1000, 1), Lit(2500, 1), Zero,
   Lit(-100, 1), Lit(-1000, 1), Lit(-2500, 1)}

\* sample points of a stress-strain curve, and slopes of linear curves
PointVals == {Zero, Lit(1, 100), Lit(2, 100), Lit(3, 100), One}

SlopeVals == {Zero, Lit(2, 1), Lit(3, 1), Lit(-3, 1), Lit(1, 10)}

\* strictly increasing strain sequences of at most MaxPoints points
IncreasingSeqs ==
  {x \in SeqsUpTo(PointVals, MaxPoints) : \A i \in 1..(Len(x) - 1) : FLt(x[i], x[i + 1])}

AngleSeqs == SeqsUpTo(AngleVals, MaxAngles)

WeightSeqs == SeqsUpTo(WeightVals, MaxAngles)

StrainSeqs == SeqsUpTo(StrainVals, MaxStrain)

(***************************************************************************)
(* The class API as a state machine: a run constructs one model and calls  *)
(* one of its methods.  ret is the outcome of the last call, built the     *)
(* models constructed so far.                                              *)
(***************************************************************************)
Call(op, args, out) == [op |-> op, args |-> args, err |-> out.err, val |-> out.val]

Init ==
  /\ model = NoModel
  /\ ret = [op |-> "init", args |-> <<>>, err |-> NoErr, val |-> <<>>]
  /\ built = <<>>

\* model = CompositeModel(angles, weights, vf, material, E_fiber_factor)
Construct(angles, weights, vf, material, E) ==
  /\ LET out == CompositeModel(angles, weights, vf, material, E)
     IN  /\ ret' = Call("CompositeModel",
                        [angles |-> angles, weights |-> weights, vf |-> vf], out)
         /\ model' = IF out.err = NoErr THEN out.val ELSE NoModel
         /\ built' = IF out.err = NoErr THEN <<out.val>> ELSE <<>>

\* model = CompositeModel(angles, weights, vf, E_fiber_factor) of src/model.py
ConstructLegacy(angles, weights, vf, E) ==
  /\ LET out == LegacyCompositeModel(angles, weights, vf, E)
     IN  /\ ret' = Call("LegacyCompositeModel",
                        [angles |-> angles, weights |-> weights, vf |-> vf], out)
         /\ model' = IF out.err = NoErr THEN out.val ELSE NoModel
         /\ built' = IF out.err = NoErr THEN <<out.val>> ELSE <<>>

\* variant: the method keeps the fibre-scaled weights on the model
CallStressWeighted_caching(strain, weighting) ==
  /\ ret' = Call("compute_stress_weighted",
                 [strain |-> strain, weighting |-> weighting],
                 compute_stress_weighted(model, strain, weighting))
  /\ model' = [model EXCEPT !.weights = Scale(model.vf, model.weights)]
  /\ UNCHANGED built

CallStressWeighted(strain, weighting) ==
  /\ ret' = Call("compute_stress_weighted",
                 [strain |-> strain, weighting |-> weighting],
                 compute_stress_weighted(model, strain, weighting))
  /\ UNCHANGED <<model, built>>

CallComputeStress(strain, weighting) ==
  /\ ret' = Call("compute_stress",
                 [strain |-> strain, weighting |-> weighting],
                 compute_stress(model, strain, weighting))
  /\ UNCHANGED <<model, built>>

CallStressComponents(strain, weighting) ==
  /\ ret' = Call("compute_stress_components",
                 [strain |-> strain, weighting |-> weighting],
                 compute_stress_components(model, strain, weighting))
  /\ UNCHANGED <<model, built>>

CallTsaiHill(stress_applied, angle_deg) ==
  /\ ret' = Call("compute_tsai_hill",
                 [stress_applied |-> stress_applied, angle_deg |-> angle_deg],
                 compute_tsai_hill(model, stress_applied, angle_deg))
  /\ UNCHANGED <<model, built>>

\* the stress curves handed in with a strain: linear ones, the squares, and
\* a curve one sample short
StressesFor(strain) ==
  {[j \in 1..Len(strain) |-> FMul(c, strain[j])] : c \in SlopeVals}
    \cup {[j \in 1..Len(strain) |-> FMul(strain[j], strain[j])]}
    \cup {[j \in 1..(Len(strain) - 1) |-> strain[j]]}

CallTangentModulus(strain, stress) ==
  /\ ret' = Call("calculate_tangent_modulus", [strain |-> strain, stress |-> stress],
                 calculate_tangent_modulus(strain, stress))
  /\ UNCHANGED <<model, built>>

\* no model constructed yet in this run
Fresh == ret.op = "init"

\* the model of class cls has just been constructed
Built(cls) ==
  /\ model.cls = cls
  /\ ret.op \in {"CompositeModel", "LegacyCompositeModel"}

Next ==
  \/ /\ Fresh
     /\ \E a \in AngleSeqs, w \in WeightSeqs, vf \in VfVals, m \in Materials, E \in EVals :
          Construct(a, w, vf, m, E)
  \/ /\ Fresh
     /\ \E a \in AngleSeqs, w \in WeightSeqs, vf \in VfVals :
          ConstructLegacy(a, w, vf, LegacyDefaultE)
  \/ /\ Built("dataclass")
     /\ \E s \in StrainSeqs, wt \in Weightings : CallStressWeighted(s, wt)
  \/ /\ Built("legacy")
     /\ \E s \in StrainSeqs, wt \in Weightings : CallComputeStress(s, wt)
  \/ /\ Built("legacy")
     /\ \E s \in StrainSeqs, wt \in Weightings : CallStressComponents(s, wt)
  \/ /\ Built("dataclass")
     /\ \E sa \in StressVals, ad \in AngleVals : CallTsaiHill(sa, ad)
  \/ /\ Fresh
     /\ \E x \in IncreasingSeqs : \E f \in StressesFor(x) : CallTangentModulus(x, f)

Spec == Init /\ [][Next]_vars

(***************************************************************************)
(* Exact comparisons of floating-point values, for the statements below.   *)
(***************************************************************************)
FAbs(x) == <<Abs(x[1]), x[2]>>

\* x + y and x - y without rounding
XAdd(x, y) ==
  IF x[1] = 0 THEN y
  ELSE IF y[1] = 0 THEN x
  ELSE Norm(AlignL(x, y) + AlignL(y, x), IF x[2] < y[2] THEN x[2] ELSE y[2])

XSub(x, y) == XAdd(x, FNeg(y))

\* |x - y| <= k * 2^-Prec * |z|: x and y agree to within k units of rounding
\* of a quantity of the size of z
Within(x, y, k, z) ==
  LET d == FAbs(XSub(x, y))
  IN  Cmp(<<d[1], d[2] + Prec>>, <<k * Abs(z[1]), z[2]>>) <= 0

\* |x - n/d| <= k * 2^-Prec * (n/d), for a positive rational n/d
NearRat(x, n, d, k) ==
  LET lhs == XSub(<<x[1] * d, x[2]>>, <<n, 0>>)
  IN  Cmp(<<Abs(lhs[1]), lhs[2] + Prec>>, <<k * n, 0>>) <= 0

ConstructOps == {"CompositeModel", "LegacyCompositeModel"}

(***************************************************************************)
(* C1.  Construction with angles and weights of different lengths always   *)
(* fails with the length error and yields no model, whatever vf is; with   *)
(* equal lengths the length error is never raised.                         *)
(***************************************************************************)
Thm_C1_LengthMismatchFails ==
  ret.op \in ConstructOps =>
    IF Len(ret.args.angles) # Len(ret.args.weights)
      THEN ret.err = ErrLength /\ ret.val = <<>> /\ model = NoModel
      ELSE ret.err # ErrLength

\* a mismatched construction whose vf is out of range as well
Wit_C1_MismatchWithBadVf ==
  /\ ret.op = "CompositeModel"
  /\ Len(ret.args.angles) = 2 /\ Len(ret.args.weights) = 1
  /\ ret.args.vf = Lit(3, 2)
  /\ ret.err = ErrLength
  /\ model = NoModel

(***************************************************************************)
(* C2.  With equal lengths, construction fails with the volume-fraction    *)
(* error exactly when vf < 0 or vf > 1; vf = 0 and vf = 1 are accepted.    *)
(***************************************************************************)
Thm_C2_VfRange ==
  (ret.op \in ConstructOps /\ Len(ret.args.angles) = Len(ret.args.weights)) =>
    IF Cmp(ret.args.vf, Zero) < 0 \/ Cmp(ret.args.vf, One) > 0
      THEN ret.err = ErrVf /\ model = NoModel
      ELSE ret.err = NoErr /\ model # NoModel /\ model.vf = ret.args.vf

\* the upper boundary vf = 1.0 is accepted
Wit_C2_BoundaryAccepted ==
  /\ ret.op = "CompositeModel"
  /\ ret.args.vf = One
  /\ Len(ret.args.angles) = 1
  /\ ret.err = NoErr
  /\ model.vf = One

(***************************************************************************)
(* C3.  compute_stress_weighted returns one stress per strain sample,      *)
(* stress[j] = E_fiber_factor * vf * sum_i(weight_i * factor_i) * strain[j]*)
(* with factor_i = cos^2 for cos2 and cos^4 for cos4, the products taken   *)
(* in floating point in the order written; angles=[0], weights=[1.0],      *)
(* vf=0.1, E_fiber_factor=525.0 at strain 0.01 gives 0.525 (to within the  *)
(* rounding of the literals and of the three products).                    *)
(***************************************************************************)
FactorOf(angle, weighting) ==
  LET c2 == FMul(cos_deg(angle), cos_deg(angle))
  IN  IF weighting = "cos2" THEN c2 ELSE FMul(c2, c2)

RECURSIVE WeightedOrientation(_, _, _, _)
WeightedOrientation(angles, weights, weighting, n) ==
  IF n = 0 THEN Zero
  ELSE FAdd(WeightedOrientation(angles, weights, weighting, n - 1),
            FMul(weights[n], FactorOf(angles[n], weighting)))

StressFormula(m, weighting, eps) ==
  FMul(FMul(FMul(m.E_fiber_factor, m.vf),
            WeightedOrientation(m.angles, m.weights, weighting, Len(m.angles))),
       eps)

Thm_C3_WeightedFormula ==
  (ret.op = "compute_stress_weighted" /\ ret.args.weighting \in {"cos4", "cos2"}) =>
    /\ ret.err = NoErr
    /\ Len(ret.val) = Len(ret.args.strain)
    /\ \A j \in 1..Len(ret.args.strain) :
         /\ ret.val[j] = StressFormula(model, ret.args.weighting, ret.args.strain[j])
         /\ ( /\ model.angles = <<0>> /\ model.weights = <<One>>
              /\ model.vf = Lit(1, 10) /\ model.E_fiber_factor = Lit(525, 1)
              /\ ret.args.strain[j] = Lit(1, 100) )
            => NearRat(ret.val[j], 525, 1000, 8)

\* a two-angle model with mixed weights and a nonzero stress
Wit_C3_TwoAngles ==
  /\ ret.op = "compute_stress_weighted"
  /\ ret.args.weighting = "cos4"
  /\ model.angles = <<0, 45>>
  /\ model.weights = <<Lit(3, 10), One>>
  /\ Len(ret.val) = 2
  /\ Cmp(ret.val[1], Zero) > 0

(***************************************************************************)
(* C4.  compute_stress_components returns a matrix of shape (n_angles,     *)
(* n_strain) whose column sums equal compute_stress for the same strain    *)
(* and weighting.  As claimed, exactly:                                    *)
(***************************************************************************)
\* sum over the angles of column j, in angle order
RECURSIVE ColSum(_, _, _)
ColSum(rows, j, n) == IF n = 0 THEN Zero ELSE FAdd(ColSum(rows, j, n - 1), rows[n][j])

\* the exact sum of the magnitudes of column j
RECURSIVE ColAbs(_, _, _)
ColAbs(rows, j, n) == IF n = 0 THEN Zero ELSE XAdd(ColAbs(rows, j, n - 1), FAbs(rows[n][j]))

ComponentsCall == ret.op = "compute_stress_components" /\ ret.err = NoErr

ShapeOK ==
  /\ ret.val.shape = <<Len(model.angles), Len(ret.args.strain)>>
  /\ Len(ret.val.data) = Len(model.angles)
  /\ \A i \in 1..Len(model.angles) : Len(ret.val.data[i]) = Len(ret.args.strain)

Scalars == {Zero, Lit(2, 1), Lit(3, 1), Lit(-1, 1), Lit(1, 10)}

WeightedCall == ret.op = "compute_stress_weighted" /\ ret.err = NoErr

\* stress(k * strain) for the call recorded in ret
StressOfScaled(k) ==
  compute_stress_weighted(model, Scale(k, ret.args.strain), ret.args.weighting).val

Orig_C5_ExactlyLinear ==
  WeightedCall =>
    \A k \in Scalars : StressOfScaled(k) = Scale(k, ret.val)

(***************************************************************************)
(* C5, amended.  stress(k * strain) equals k * stress(strain) elementwise  *)
(* up to rounding (a relative difference of at most 5 * 2^-Prec), and      *)
(* exactly for k = 0 (zero strain gives zero stress) and k = 2.            *)
(***************************************************************************)
Thm_C5_LinearWithinRounding ==
  WeightedCall =>
    \A k \in Scalars : \A scaled \in {StressOfScaled(k)} :
      /\ Len(scaled) = Len(ret.val)
      /\ \A j \in 1..Len(ret.val) : \A kv \in {FMul(k, ret.val[j])} :
           /\ Within(scaled[j], kv, 5, kv)
           /\ k \in {Zero, Lit(2, 1)} => scaled[j] = kv
           /\ k = Zero => scaled[j] = Zero

\* a nonzero stress for which scaling by 3 before and after differ
Wit_C5_RoundingDiffers ==
  /\ WeightedCall
  /\ Len(ret.val) >= 1
  /\ ret.val[1] # Zero
  /\ StressOfScaled(Lit(3, 1))[1] # FMul(Lit(3, 1), ret.val[1])

(***************************************************************************)
(* C6.  compute_stress_weighted and compute_stress_components raise the    *)
(* weighting ValueError for every weighting other than cos4 and cos2, for  *)
(* every model and strain, and return no stress values.                    *)
(***************************************************************************)
Thm_C6_UnknownWeightingFails ==
  ( /\ ret.op \in {"compute_stress_weighted", "compute_stress_components"}
    /\ ret.args.weighting \notin {"cos4", "cos2"} ) =>
    ret.err = ErrWeighting /\ ret.val = <<>>

Wit_C6_Cos3Rejected ==
  /\ ret.op = "compute_stress_components"
  /\ ret.args.weighting = "cos3"
  /\ Len(ret.args.strain) = 2
  /\ Len(model.angles) = 2
  /\ ret.err = ErrWeighting

(***************************************************************************)
(* C7.  At ply angle 0 compute_tsai_hill returns (sigma / X)^2, X being    *)
(* X_t for sigma >= 0 and X_c for sigma < 0, so the index is < 1 exactly   *)
(* when |sigma| < X; with the default strengths sigma = 100 gives an index *)
(* below 1 and sigma = 2500 an index above 1.                              *)
(***************************************************************************)
StrengthFor(sigma, material) ==
  IF Cmp(sigma, Zero) >= 0 THEN material.X_t ELSE material.X_c

Thm_C7_TsaiHillAtZero ==
  (ret.op = "compute_tsai_hill" /\ ret.args.angle_deg = 0) =>
    LET sigma == ret.args.stress_applied
        X == StrengthFor(sigma, model.material)
    IN  /\ ret.err = NoErr
        /\ ret.val = FMul(FDiv(sigma, X), FDiv(sigma, X))
        /\ Cmp(ret.val, One) < 0 <=> Cmp(FAbs(sigma), X) < 0
        /\ (model.material = DefaultMaterial /\ sigma = Lit(100, 1))
             => Cmp(ret.val, One) < 0
        /\ (model.material = DefaultMaterial /\ sigma = Lit(2500, 1))
             => Cmp(ret.val, One) > 0

\* a compressive stress between X_c and X_t: the index reaches 1
Wit_C7_CompressiveFailure ==
  /\ ret.op = "compute_tsai_hill"
  /\ ret.args.angle_deg = 0
  /\ model.material = DefaultMaterial
  /\ ret.args.stress_applied = Lit(-1000, 1)
  /\ Cmp(ret.val, One) >= 0

(***************************************************************************)
(* The volume-fraction sweep as a state machine: one call of vf_sweep of   *)
(* either variant, on a fixed choice of laminates.                         *)
(***************************************************************************)
\* (angles, weights): the laminate of the tests, a single ply, no ply, and
\* a pair of lists of different lengths
SweepConfigs ==
  { << <<0, 45, 90>>, <<Lit(1, 2), Lit(3, 10), Lit(2, 10)>> >>,
    << <<0>>, <<One>> >>,
    << <<>>, <<>> >>,
    << <<0, 45>>, <<One>> >> }

VfSeqs == SeqsUpTo(VfVals, MaxVfs)

ModelTypes == {"weighted", "halpin-tsai"}

VfSweep(angles, weights, vfs, strain, model_type) ==
  LET run == vf_sweep(angles, weights, vfs, strain, model_type)
  IN  /\ ret' = Call("vf_sweep",
                     [angles |-> angles, weights |-> weights, vfs |-> vfs,
                      strain |-> strain, model_type |-> model_type],
                     Outcome(run))
      /\ built' = run.built
      /\ UNCHANGED model

LegacyVfSweep(angles, weights, vfs, strain, E) ==
  LET run == legacy_vf_sweep(angles, weights, vfs, strain, E)
  IN  /\ ret' = Call("legacy_vf_sweep",
                     [angles |-> angles, weights |-> weights, vfs |-> vfs,
                      strain |-> strain, model_type |-> "weighted"],
                     Outcome(run))
      /\ built' = run.built
      /\ UNCHANGED model

Heatmap(angles, weights, vf_range, strain) ==
  \E run \in {generate_heatmap_data(angles, weights, vf_range, strain)} :
    /\ ret' = Call("generate_heatmap_data",
                   [angles |-> angles, weights |-> weights, vfs |-> vf_range,
                    strain |-> strain, model_type |-> "weighted"],
                   Outcome(run))
    /\ built' = run.built
    /\ UNCHANGED model

LegacyHeatmap(angles, weights, vf_range, strain, E) ==
  \E run \in {legacy_generate_heatmap_data(angles, weights, vf_range, strain, E)} :
    /\ ret' = Call("legacy_generate_heatmap_data",
                   [angles |-> angles, weights |-> weights, vfs |-> vf_range,
                    strain |-> strain, model_type |-> "weighted"],
                   Outcome(run))
    /\ built' = run.built
    /\ UNCHANGED model

NextSweep ==
  \/ /\ Fresh
     /\ \E c \in SweepConfigs, vfs \in VfSeqs, s \in StrainSeqs, mt \in ModelTypes :
          VfSweep(c[1], c[2], vfs, s, mt)
  \/ /\ Fresh
     /\ \E c \in SweepConfigs, vfs \in VfSeqs, s \in StrainSeqs :
          LegacyVfSweep(c[1], c[2], vfs, s, LegacyDefaultE)
  \/ /\ Fresh
     /\ \E c \in SweepConfigs, vfs \in VfSeqs, s \in StrainSeqs :
          Heatmap(c[1], c[2], vfs, s)
  \/ /\ Fresh
     /\ \E c \in SweepConfigs, vfs \in VfSeqs, s \in StrainSeqs :
          LegacyHeatmap(c[1], c[2], vfs, s, LegacyDefaultE)

SpecSweep == Init /\ [][NextSweep]_vars

(***************************************************************************)
(* C8.  For valid vf values (and the weighted model) vf_sweep returns a    *)
(* mapping with exactly one key per input vf value, the keys being the     *)
(* input values in input order (a repeated value keeps its first place),   *)
(* each mapped to the weighted stress curve of a model built with that vf, *)
(* of the strain's length.                                                 *)
(***************************************************************************)
SweepOps == {"vf_sweep", "legacy_vf_sweep"}

\* index of the first occurrence of v in the sequence xs
FirstAt(xs, v) == CHOOSE i \in 1..Len(xs) : xs[i] = v /\ \A h \in 1..(i - 1) : xs[h] # v

SweepE == IF ret.op = "vf_sweep" THEN DefaultE ELSE LegacyDefaultE

ValidSweep ==
  /\ ret.op \in SweepOps
  /\ ret.args.model_type = "weighted"
  /\ Len(ret.args.angles) = Len(ret.args.weights)
  /\ \A n \in 1..Len(ret.args.vfs) :
       Cmp(ret.args.vfs[n], Zero) >= 0 /\ Cmp(ret.args.vfs[n], One) <= 0

Thm_C8_SweepKeys ==
  ValidSweep =>
    LET vfs == ret.args.vfs
        keys == DictKeys(ret.val)
    IN  /\ ret.err = NoErr
        /\ {keys[i] : i \in 1..Len(keys)} = {vfs[n] : n \in 1..Len(vfs)}
        /\ \A i, k \in 1..Len(keys) :
             /\ i # k => keys[i] # keys[k]
             /\ i < k => FirstAt(vfs, keys[i]) < FirstAt(vfs, keys[k])
        /\ \A i \in 1..Len(keys) :
             /\ Len(ret.val[i][2]) = Len(ret.args.strain)
             /\ \A j \in 1..Len(ret.args.strain) :
                  ret.val[i][2][j] =
                    StressFormula([angles |-> ret.args.angles,
                                   weights |-> ret.args.weights,
                                   vf |-> keys[i], E_fiber_factor |-> SweepE],
                                  "cos4", ret.args.strain[j])
        /\ Len(built) = Len(vfs)
        /\ \A n \in 1..Len(vfs) : built[n].vf = vfs[n]

\* two distinct vfs given in descending order, on the laminate of the tests
Wit_C8_InputOrderKept ==
  /\ ret.op = "vf_sweep"
  /\ ret.args.model_type = "weighted"
  /\ ret.args.angles = <<0, 45, 90>>
  /\ ret.args.vfs = <<One, Lit(1, 10)>>
  /\ Len(ret.args.strain) = 2
  /\ ret.err = NoErr
  /\ DictKeys(ret.val) = <<One, Lit(1, 10)>>

\* a repeated vf gives one key
Wit_C8_RepeatedVf ==
  /\ ret.op = "vf_sweep"
  /\ ret.args.model_type = "weighted"
  /\ ret.args.vfs = <<Lit(1, 10), Lit(1, 10)>>
  /\ ret.err = NoErr
  /\ Len(ret.val) = 1

(***************************************************************************)
(* Monte Carlo as a state machine: one call of monte_carlo_uncertainty of  *)
(* either variant; the noise of every trial is any vector over NoiseVals.  *)
(***************************************************************************)
\* (angles, weights): base weights of positive, zero and negative sum, and
\* a pair of lists of different lengths
MCConfigs ==
  { << <<0, 45>>, <<Lit(1, 2), Lit(3, 10)>> >>,
    << <<0>>, <<One>> >>,
    << <<>>, <<>> >>,
    << <<0, 45>>, <<One, Lit(-3, 1)>> >>,
    << <<0, 45>>, <<One, Lit(-1, 1)>> >>,
    << <<0, 45>>, <<Lit(3, 1), Lit(-1, 1)>> >>,
    << <<0, 45>>, <<One>> >> }

NoiseVals == {Lit(-2, 1), Lit(-1, 10), Zero, Lit(1, 10)}

MCVfVals == {Lit(1, 10), Lit(3, 2)}

MCStrains == {<<>>, <<Lit(1, 100)>>, <<Lit(1, 100), Lit(3, 1)>>}

\* the draws of n_iter trials for base weights of length len
NoiseSeqs(n_iter, len) == [1..n_iter -> [1..len -> NoiseVals]]

\* the caller has chosen the arguments of the call
InitMC ==
  /\ model = NoModel
  /\ built = <<>>
  /\ \E c \in MCConfigs, vf \in MCVfVals, s \in MCStrains, mt \in ModelTypes :
       ret = [op |-> "init",
              args |-> [angles |-> c[1], weights |-> c[2], vf |-> vf,
                        strain |-> s, model_type |-> mt],
              err |-> NoErr, val |-> <<>>]

MonteCarlo(noise) ==
  \E run \in {monte_carlo_uncertainty(ret.args.angles, ret.args.weights, ret.args.vf,
                                       ret.args.strain, noise, ret.args.model_type)} :
    LET a == ret.args
    IN  /\ ret' = Call("monte_carlo_uncertainty",
                     [angles |-> a.angles, weights |-> a.weights, vf |-> a.vf,
                      strain |-> a.strain, n_iter |-> Len(noise), noise |-> noise,
                      model_type |-> a.model_type],
                     Outcome(run))
      /\ built' = run.built
      /\ UNCHANGED model

\* src/analysis.py has no model_type: the weighted law always
LegacyMonteCarlo(noise) ==
  \E run \in {legacy_monte_carlo_uncertainty(ret.args.angles, ret.args.weights,
                                              ret.args.vf, ret.args.strain, noise,
                                              LegacyDefaultE)} :
    LET a == ret.args
    IN  /\ ret' = Call("legacy_monte_carlo_uncertainty",
                     [angles |-> a.angles, weights |-> a.weights, vf |-> a.vf,
                      strain |-> a.strain, n_iter |-> Len(noise), noise |-> noise,
                      model_type |-> "weighted"],
                     Outcome(run))
      /\ built' = run.built
      /\ UNCHANGED model

NextMC ==
  \/ /\ Fresh
     /\ \E n_iter \in 0..MaxIter :
          \E noise \in NoiseSeqs(n_iter, Len(ret.args.weights)) : MonteCarlo(noise)
  \/ /\ Fresh
     /\ ret.args.model_type = "weighted"
     /\ \E n_iter \in 0..MaxIter :
          \E noise \in NoiseSeqs(n_iter, Len(ret.args.weights)) : LegacyMonteCarlo(noise)

SpecMC == InitMC /\ [][NextMC]_vars

(***************************************************************************)
(* C9.  In every Monte Carlo trial, for any base weights and any noise,    *)
(* the weights handed to the model are all >= 0 and sum to the sum of the  *)
(* base weights (up to rounding), unless the floored perturbed sum is      *)
(* zero: then they are the floored weights, not renormalized.              *)
(***************************************************************************)
MCOps == {"monte_carlo_uncertainty", "legacy_monte_carlo_uncertainty"}

\* the sum of xs without rounding
RECURSIVE XSumTo(_, _)
XSumTo(xs, n) == IF n = 0 THEN Zero ELSE XAdd(XSumTo(xs, n - 1), xs[n])

XSum(xs) == XSumTo(xs, Len(xs))

\* max(w_i * (1 + noise_i), 0) of trial k of the call in ret
FlooredOf(k) ==
  [i \in 1..Len(ret.args.weights) |->
     FMax(FMul(ret.args.weights[i], FAdd(One, ret.args.noise[k][i])), Zero)]

BaseSum == np_sum(ret.args.weights)

\* the weights of the model of trial k are as the claim says
HandedAsClaimed(k) ==
  LET handed == built[k].weights
  IN  /\ \A i \in 1..Len(handed) : FLe(Zero, handed[i])
      /\ IF FLt(Zero, np_sum(FlooredOf(k)))
           THEN Within(XSum(handed), BaseSum, 2 * Len(handed) + 4, BaseSum)
           ELSE handed = FlooredOf(k)

Orig_C9_WeightsNonNegativeSumKept ==
  ret.op \in MCOps => \A k \in 1..Len(built) : HandedAsClaimed(k)

\* base weights of negative sum, no noise: the floored weights have a positive
\* sum and are rescaled by the negative base sum
C9_NegativeWeightHanded ==
  /\ ret.op \in MCOps
  /\ Len(built) >= 1
  /\ \A i \in 1..Len(ret.args.weights) : ret.args.noise[1][i] = Zero
  /\ FLt(BaseSum, Zero)
  /\ \E i \in 1..Len(built[1].weights) : FLt(built[1].weights[i], Zero)

\* what the code does keep: the statement for base weights of sum >= 0
C9_HoldsForNonNegativeBaseSum ==
  (ret.op \in MCOps /\ FLe(Zero, BaseSum)) => \A k \in 1..Len(built) : HandedAsClaimed(k)

\* a trial whose floored weights were rescaled, under a base sum >= 0
C9_RescaledTrial ==
  /\ ret.op = "monte_carlo_uncertainty"
  /\ FLt(Zero, BaseSum)
  /\ Len(built) >= 1
  /\ FLt(Zero, np_sum(FlooredOf(1)))
  /\ built[1].weights # FlooredOf(1)

\* a trial whose floored weights are all zero: the renormalization is skipped
C9_SkippedTrial ==
  /\ ret.op = "monte_carlo_uncertainty"
  /\ Len(ret.args.weights) = 2
  /\ Len(built) >= 1
  /\ np_sum(FlooredOf(1)) = Zero
  /\ built[1].weights = <<Zero, Zero>>

(***************************************************************************)
(* C10.  For every n_iter >= 0 and every strain sequence, a call of        *)
(* monte_carlo_uncertainty that returns gives a 2-D array of shape         *)
(* (n_iter, len(strain)), one row per trial in trial order.                *)
(***************************************************************************)
\* row k is the curve of the model of trial k
RowsInTrialOrder ==
  \A k \in 1..ret.args.n_iter :
    /\ Len(ret.val.data[k]) = Len(ret.args.strain)
    /\ \A j \in 1..Len(ret.args.strain) :
         ret.val.data[k][j] =
           StressFormula(built[k], "cos4", ret.args.strain[j])

Orig_C10_ShapeIterByStrain ==
  (ret.op \in MCOps /\ ret.err = NoErr) =>
    /\ ret.val.shape = <<ret.args.n_iter, Len(ret.args.strain)>>
    /\ Len(ret.val.data) = ret.args.n_iter
    /\ Len(built) = ret.args.n_iter
    /\ RowsInTrialOrder

\* what the code does keep: the statement for n_iter >= 1
C10_HoldsForPositiveIter ==
  (ret.op \in MCOps /\ ret.err = NoErr /\ ret.args.n_iter >= 1) =>
    /\ ret.val.shape = <<ret.args.n_iter, Len(ret.args.strain)>>
    /\ Len(ret.val.data) = ret.args.n_iter
    /\ Len(built) = ret.args.n_iter
    /\ RowsInTrialOrder

\* n_iter = 0 with a strain of two samples returns the array of shape (0,)
C10_EmptyStack ==
  /\ ret.op = "monte_carlo_uncertainty"
  /\ ret.err = NoErr
  /\ ret.args.n_iter = 0
  /\ Len(ret.args.strain) = 2
  /\ ret.val.shape = <<0>>

(***************************************************************************)
(* C11.  For every constant c and every strictly increasing strain of at   *)
(* least two points, calculate_tangent_modulus(strain, c * strain) returns *)
(* c at every sample point, the endpoints included.  As claimed: exactly c.*)
(***************************************************************************)
TangentCall == ret.op = "calculate_tangent_modulus"

\* the call in ret was given the linear curve of slope c on two points or more
LinearCurve(c) ==
  /\ TangentCall
  /\ Len(ret.args.strain) >= 2
  /\ ret.args.stress = [j \in 1..Len(ret.args.strain) |-> FMul(c, ret.args.strain[j])]

XMul(x, y) == Norm(x[1] * y[1], x[2] + y[2])

RECURSIVE MinTo(_, _)
MinTo(xs, n) ==
  IF n = 1 THEN xs[1]
  ELSE LET m == MinTo(xs, n - 1) IN IF FLt(xs[n], m) THEN xs[n] ELSE m

RECURSIVE MaxAbsTo(_, _)
MaxAbsTo(xs, n) ==
  IF n = 0 THEN Zero ELSE FMax(MaxAbsTo(xs, n - 1), FAbs(xs[n]))

\* |v - c| * min spacing <= k * 2^-Prec * |c| * max |x|
SlopeWithin(v, c, x, k) ==
  LET d == XMul(FAbs(XSub(v, c)), MinTo(np_diff(x), Len(x) - 1))
      z == XMul(FAbs(c), MaxAbsTo(x, Len(x)))
  IN  Cmp(<<d[1], d[2] + Prec>>, <<k * z[1], z[2]>>) <= 0

UniformSpacing(x) == \A i \in 1..(Len(x) - 1) : np_diff(x)[i] = np_diff(x)[1]

\* the slope at point i is free of rounding when c is a power of two
ExactPoint(x, i) ==
  \/ i = 1
  \/ i = Len(x)
  \/ /\ UniformSpacing(x)
     /\ FSub(x[i + 1], x[i - 1]) = FMul(<<1, 1>>, np_diff(x)[1])

C11_ExactOnUniform ==
  /\ LinearCurve(Lit(2, 1))
  /\ Len(ret.args.strain) = 3
  /\ UniformSpacing(ret.args.strain)
  /\ \A i \in 1..3 : ExactPoint(ret.args.strain, i) /\ ret.val[i] = Lit(2, 1)

(***************************************************************************)
(* C12.  calculate_tangent_modulus on fewer than two points (strain and    *)
(* stress of length 0 or 1) fails with an error and returns no derivative. *)
(***************************************************************************)
Thm_C12_TooFewPointsFail ==
  ( /\ TangentCall
    /\ Len(ret.args.strain) < 2
    /\ Len(ret.args.stress) = Len(ret.args.strain) ) =>
    ret.err # NoErr /\ ret.val = <<>>

Wit_C12_OnePoint ==
  /\ TangentCall
  /\ Len(ret.args.strain) = 1
  /\ Len(ret.args.stress) = 1
  /\ ret.err # NoErr

(***************************************************************************)
(* Materials as a state machine: a CompositeMaterial is constructed with   *)
(* one field overridden, then embedded in a CompositeModel.                *)
(***************************************************************************)
Moduli == {"E_f", "E_m", "G_f", "G_m"}

Strengths == {"X_t", "X_c", "Y_t", "Y_c", "S"}

MaterialFields == Moduli \cup Strengths \cup {"nu_f", "nu_m"}

OverrideVals == {Zero, Lit(-1, 1), Lit(100, 1)}

MakeMaterial(field, value) ==
  /\ ret' = Call("CompositeMaterial", [field |-> field, value |-> value],
                 CompositeMaterial(field, value))
  /\ UNCHANGED <<model, built>>

\* the material just constructed
MaterialMade == ret.op = "CompositeMaterial" /\ ret.err = NoErr

NextMat ==
  \/ /\ Fresh
     /\ \E f \in MaterialFields, v \in OverrideVals : MakeMaterial(f, v)
  \/ /\ MaterialMade
     /\ \E c \in SweepConfigs, vf \in VfVals : Construct(c[1], c[2], vf, ret.val, DefaultE)

SpecMat == Init /\ [][NextMat]_vars

(***************************************************************************)
(* C13.  Constructing the material record fails with an error whenever a   *)
(* modulus (E_f, E_m, G_f, G_m) or a strength limit (X_t, X_c, Y_t, Y_c,   *)
(* S) is <= 0, so the material of every model has strictly positive moduli *)
(* and strengths.                                                          *)
(***************************************************************************)
Orig_C13_NonPositiveRejected ==
  /\ ( /\ ret.op = "CompositeMaterial"
       /\ ret.args.field \in Moduli \cup Strengths
       /\ FLe(ret.args.value, Zero) ) => ret.err # NoErr
  /\ model.cls = "dataclass" =>
       \A f \in Moduli \cup Strengths : FLt(Zero, model.material[f])

\* a model whose material has the shear strength S = -1
C13_NegativeStrengthEmbedded ==
  /\ ret.op = "CompositeModel"
  /\ ret.err = NoErr
  /\ model.cls = "dataclass"
  /\ model.material.S = Lit(-1, 1)

(***************************************************************************)
(* C14.  generate_heatmap_data returns a 2-D grid with one row per input   *)
(* vf, in input order, and one column per strain sample; grid[i][j] is the *)
(* weighted stress for (vf_range[i], strain[j]), and row i is the curve    *)
(* vf_sweep returns for the key vf_range[i] on the same arguments.         *)
(***************************************************************************)
HeatmapOps == {"generate_heatmap_data", "legacy_generate_heatmap_data"}

\* a heat map asked for valid vfs on angles and weights of one length
ValidHeatmap ==
  /\ ret.op \in HeatmapOps
  /\ Len(ret.args.angles) = Len(ret.args.weights)
  /\ \A n \in 1..Len(ret.args.vfs) : VfInRange(ret.args.vfs[n])

\* the value stored under key in the mapping d
DictGet(d, key) == d[CHOOSE i \in 1..Len(d) : d[i][1] = key][2]

\* what vf_sweep of the same variant returns on the arguments in ret
SweepOfSame ==
  IF ret.op = "generate_heatmap_data"
    THEN vf_sweep(ret.args.angles, ret.args.weights, ret.args.vfs, ret.args.strain,
                  "weighted").results
    ELSE legacy_vf_sweep(ret.args.angles, ret.args.weights, ret.args.vfs,
                         ret.args.strain, LegacyDefaultE).results

HeatmapE == IF ret.op = "generate_heatmap_data" THEN DefaultE ELSE LegacyDefaultE

RowsAreSweepCurves ==
  /\ Len(ret.val.data) = Len(ret.args.vfs)
  /\ \A i \in 1..Len(ret.args.vfs) :
       /\ ret.val.data[i] = DictGet(SweepOfSame, ret.args.vfs[i])
       /\ Len(ret.val.data[i]) = Len(ret.args.strain)
       /\ \A j \in 1..Len(ret.args.strain) :
            ret.val.data[i][j] =
              StressFormula([angles |-> ret.args.angles, weights |-> ret.args.weights,
                             vf |-> ret.args.vfs[i], E_fiber_factor |-> HeatmapE],
                            "cos4", ret.args.strain[j])

Orig_C14_GridRowsAreSweepCurves ==
  ValidHeatmap =>
    /\ ret.err = NoErr
    /\ ret.val.shape = <<Len(ret.args.vfs), Len(ret.args.strain)>>
    /\ RowsAreSweepCurves

\* what the code does keep: the statement for a vf_range that is not empty
C14_HoldsForNonEmptyRange ==
  (ValidHeatmap /\ Len(ret.args.vfs) >= 1) =>
    /\ ret.err = NoErr
    /\ ret.val.shape = <<Len(ret.args.vfs), Len(ret.args.strain)>>
    /\ RowsAreSweepCurves

\* an empty vf_range with a strain of two samples: the array of shape (0,)
C14_EmptyRange ==
  /\ ret.op = "generate_heatmap_data"
  /\ ret.err = NoErr
  /\ ret.args.vfs = <<>>
  /\ Len(ret.args.strain) = 2
  /\ ret.val.shape = <<0>>

\* two vfs in descending order on the laminate of the tests: a 2 x 2 grid
C14_TwoByTwo ==
  /\ ret.op = "generate_heatmap_data"
  /\ ret.args.angles = <<0, 45, 90>>
  /\ ret.args.vfs = <<One, Lit(1, 10)>>
  /\ ret.err = NoErr
  /\ ret.val.shape = <<2, 2>>
  /\ ret.val.data[1] # ret.val.data[2]

(***************************************************************************)
(* The Halpin-Tsai model as a state machine: a run constructs one model,   *)
(* on the laminate of the tests or any short one, and calls one method.    *)
(***************************************************************************)
\* a material with a fibre softer than the matrix
SoftFibre == [DefaultMaterial EXCEPT !.name = "soft fibre", !.E_f = Lit(1000, 1)]

HTMaterials == {DefaultMaterial, SoftFibre}

TestLaminate == << <<0, 45, 90>>, <<Lit(1, 2), Lit(3, 10), Lit(2, 10)>> >>

HTConfigs == (AngleSeqs \X WeightSeqs) \cup {TestLaminate}

CallHalpinTsaiModulus ==
  /\ ret' = Call("compute_halpin_tsai_modulus", <<>>, compute_halpin_tsai_modulus(model))
  /\ UNCHANGED <<model, built>>

CallStressHalpinTsai(strain) ==
  /\ ret' = Call("compute_stress_halpin_tsai", [strain |-> strain],
                 compute_stress_halpin_tsai(model, strain))
  /\ UNCHANGED <<model, built>>

NextHT ==
  \/ /\ Fresh
     /\ \E c \in HTConfigs, vf \in VfVals, m \in HTMaterials :
          Construct(c[1], c[2], vf, m, DefaultE)
  \/ /\ Built("dataclass")
     /\ CallHalpinTsaiModulus
  \/ /\ Built("dataclass")
     /\ \E s \in StrainSeqs : CallStressHalpinTsai(s)

SpecHT == Init /\ [][NextHT]_vars

(***************************************************************************)
(* C15.  compute_halpin_tsai_modulus returns the parallel (Voigt) sum      *)
(* E_eff = sum_i weight_i * Ex_i of the off-axis moduli                    *)
(* Ex_i = 1 / (cos^4/E1 + cos^2 sin^2 (1/G12 - 2 nu12/E1) + sin^4/E2), not *)
(* the series (Reuss) combination; compute_stress_halpin_tsai returns      *)
(* E_eff * strain[j] for every j, of the strain's length, and positive for *)
(* positive strain on the laminate of the tests with the default material. *)
(***************************************************************************)
\* the constants of the plies and whether one of their denominators is zero
\* (the DivisionSingularity of the spec)
PlyE1(m) == FAdd(FMul(m.material.E_f, m.vf), FMul(m.material.E_m, FSub(One, m.vf)))

PlyNu12(m) ==
  FAdd(FMul(m.material.nu_f, m.vf), FMul(m.material.nu_m, FSub(One, m.vf)))

\* eta = (P_f/P_m - 1) / (P_f/P_m + xi) of Halpin-Tsai
HalpinEta(P_f, P_m, xi) ==
  PyDiv(FSub(PyDiv(P_f, P_m), One), FAdd(PyDiv(P_f, P_m), xi))

\* P_m * (1 + xi * eta * vf) / (1 - eta * vf)
HalpinTsai(P_f, P_m, xi, vf) ==
  LET eta == HalpinEta(P_f, P_m, xi)
  IN  PyDiv(FMul(P_m, FAdd(One, FMul(FMul(xi, eta), vf))), FSub(One, FMul(eta, vf)))

Singular(m) ==
  \/ m.material.E_m = Zero
  \/ m.material.G_m = Zero
  \/ FAdd(PyDiv(m.material.E_f, m.material.E_m), Two) = Zero
  \/ FAdd(PyDiv(m.material.G_f, m.material.G_m), One) = Zero
  \/ FMul(HalpinEta(m.material.E_f, m.material.E_m, Two), m.vf) = One
  \/ FMul(HalpinEta(m.material.G_f, m.material.G_m, One), m.vf) = One
  \/ PlyE1(m) = Zero
  \/ HalpinTsai(m.material.E_f, m.material.E_m, Two, m.vf) = Zero
  \/ HalpinTsai(m.material.G_f, m.material.G_m, One, m.vf) = Zero

\* the off-axis modulus at angle a, the quotients taken as products with the
\* reciprocals 1/E1, 1/G12 and 1/E2
OffAxis(a, E1, E2, G12, nu12) ==
  LET c2 == FMul(cos_deg(a), cos_deg(a))
      s2 == FMul(sin_deg(a), sin_deg(a))
      rE1 == FDiv(One, E1)
  IN  FDiv(One,
           FAdd(FAdd(FMul(FPow4(cos_deg(a)), rE1),
                     FMul(FMul(c2, s2),
                          FSub(FDiv(One, G12), FMul(FMul(Two, nu12), rE1)))),
                FMul(FPow4(sin_deg(a)), FDiv(One, E2))))

RECURSIVE VoigtTo(_, _)
VoigtTo(m, n) ==
  IF n = 0 THEN Zero
  ELSE FAdd(VoigtTo(m, n - 1),
            FMul(m.weights[n],
                 OffAxis(m.angles[n], PlyE1(m),
                         HalpinTsai(m.material.E_f, m.material.E_m, Two, m.vf),
                         HalpinTsai(m.material.G_f, m.material.G_m, One, m.vf),
                         PlyNu12(m))))

Voigt(m) == VoigtTo(m, Len(m.angles))

OnTestLaminate ==
  /\ model.angles = TestLaminate[1]
  /\ model.weights = TestLaminate[2]
  /\ model.material = DefaultMaterial

HalpinTsaiOps == {"compute_halpin_tsai_modulus", "compute_stress_halpin_tsai"}

C15_VoigtIsNotReuss ==
  /\ ret.op = "compute_halpin_tsai_modulus"
  /\ Len(model.angles) = 2
  /\ ret.err = NoErr
  /\ ret.val = Voigt(model)
  /\ ret.val # compute_halpin_tsai_modulus_reuss(model).val


\* a call on a laminate whose Halpin-Tsai denominator is zero
C15_SingularLaminate ==
  /\ ret.op \in HalpinTsaiOps
  /\ Singular(model)
  /\ ret.err = ErrZeroDivision


(***************************************************************************)
(* Runs of several calls: as in main of run_analysis.py, the caller builds *)
(* one model and then calls its methods and the analysis procedures, in    *)
(* any order and any number of times, handing the procedures the angles    *)
(* and weights of the model.                                               *)
(***************************************************************************)
\* a model of class cls exists
Made(cls) == model.cls = cls

\* the draws of n_iter trials, every weight of a trial perturbed alike
EvenNoise(len) ==
  {[k \in 1..n_iter |-> [i \in 1..len |-> v]] : n_iter \in 0..MaxIter, v \in NoiseVals}

FrameVfSeqs == {<<>>, <<Lit(1, 10)>>, <<Lit(1, 10), One>>, <<One, Lit(3, 2)>>}

\* results = monte_carlo_uncertainty(angles, weights, vf, strain, n_iter, ...)
CallMonteCarlo(angles, weights, vf, strain, noise) ==
  \E run \in {monte_carlo_uncertainty(angles, weights, vf, strain, noise, "weighted")} :
    /\ ret' = Call("monte_carlo_uncertainty",
                   [angles |-> angles, weights |-> weights, vf |-> vf,
                    strain |-> strain, n_iter |-> Len(noise), noise |-> noise,
                    model_type |-> "weighted"],
                   Outcome(run))
    /\ built' = run.built
    /\ UNCHANGED model

NextFrame ==
  \/ /\ Fresh
     /\ \E c \in SweepConfigs, vf \in VfVals :
          Construct(c[1], c[2], vf, DefaultMaterial, DefaultE)
  \/ /\ Fresh
     /\ \E c \in SweepConfigs, vf \in VfVals :
          ConstructLegacy(c[1], c[2], vf, LegacyDefaultE)
  \/ /\ Made("dataclass")
     /\ \E s \in MCStrains, wt \in Weightings : CallStressWeighted(s, wt)
  \/ /\ Made("dataclass")
     /\ \E sa \in StressVals, ad \in AngleVals : CallTsaiHill(sa, ad)
  \/ /\ Made("dataclass")
     /\ CallHalpinTsaiModulus
  \/ /\ Made("dataclass")
     /\ \E s \in MCStrains : CallStressHalpinTsai(s)
  \/ /\ Made("legacy")
     /\ \E s \in MCStrains, wt \in Weightings : CallComputeStress(s, wt)
  \/ /\ Made("legacy")
     /\ \E s \in MCStrains, wt \in Weightings : CallStressComponents(s, wt)
  \/ /\ Made("dataclass")
     /\ \E vfs \in FrameVfSeqs, s \in MCStrains :
          VfSweep(model.angles, model.weights, vfs, s, "weighted")
  \/ /\ Made("dataclass")
     /\ \E vfs \in FrameVfSeqs, s \in MCStrains :
          Heatmap(model.angles, model.weights, vfs, s)
  \/ /\ Made("dataclass")
     /\ \E s \in MCStrains, noise \in EvenNoise(Len(model.weights)) :
          CallMonteCarlo(model.angles, model.weights, model.vf, s, noise)

SpecFrame == Init /\ [][NextFrame]_vars

(***************************************************************************)
(* C16.  No call mutates a constructed model or the sequences the caller   *)
(* hands in: across every call of compute_stress_weighted, compute_stress, *)
(* compute_stress_components, compute_halpin_tsai_modulus,                 *)
(* compute_stress_halpin_tsai, compute_tsai_hill, vf_sweep,                *)
(* monte_carlo_uncertainty and generate_heatmap_data the model's angles,   *)
(* weights, vf, material and E_fiber_factor stay as constructed and the    *)
(* construction invariants still hold; every sweep point and every trial   *)
(* is a new model built from the angles handed in; and a compute_* call    *)
(* repeated with the same arguments returns the same result.               *)
(***************************************************************************)
ComputeOps ==
  {"compute_stress_weighted", "compute_stress", "compute_stress_components",
   "compute_halpin_tsai_modulus", "compute_stress_halpin_tsai", "compute_tsai_hill"}

PointOps == {"vf_sweep", "generate_heatmap_data", "monte_carlo_uncertainty"}

ConstructionInvariant(m) ==
  /\ Len(m.angles) = Len(m.weights)
  /\ VfInRange(m.vf)

\* the step from before a call to after it
FrameStep ==
  model # NoModel =>
    /\ model' = model
    /\ ConstructionInvariant(model')
    /\ ret'.op \in PointOps =>
         \A k \in 1..Len(built') :
           /\ built'[k].angles = ret'.args.angles
           /\ ret'.args.angles = model.angles
           /\ ret'.args.weights = model.weights
    /\ (ret'.op \in ComputeOps /\ ret'.op = ret.op /\ ret'.args = ret.args) =>
         (ret'.val = ret.val /\ ret'.err = ret.err)

GridOps == SweepOps \cup HeatmapOps

SomeVfInvalid == \E n \in 1..Len(ret.args.vfs) : ~VfInRange(ret.args.vfs[n])

\* the position of the first vf outside [0, 1]
FirstInvalid ==
  CHOOSE n \in 1..Len(ret.args.vfs) :
    /\ ~VfInRange(ret.args.vfs[n])
    /\ \A k \in 1..(n - 1) : VfInRange(ret.args.vfs[k])

Thm_C17_NoPartialSweep ==
  (ret.op \in GridOps /\ SomeVfInvalid) =>
    /\ ret.err \in {ErrVf, ErrLength}
    /\ Len(ret.args.angles) = Len(ret.args.weights) => ret.err = ErrVf
    /\ ret.val = <<>>
    /\ Len(built) < FirstInvalid
    /\ \A k \in 1..Len(built) : built[k].vf = ret.args.vfs[k]

\* a valid vf first, then one above 1
Wit_C17_ValidThenInvalid ==
  /\ ret.op = "generate_heatmap_data"
  /\ ret.args.vfs = <<Lit(1, 10), Lit(3, 2)>>
  /\ Len(ret.args.strain) = 2
  /\ ret.err = ErrVf
  /\ ret.val = <<>>
  /\ Len(built) = 1


(***************************************************************************)
(* The original script next to the class of src/model.py: the caller       *)
(* either runs the script's loop on its lists, or builds the model with    *)
(* E_fiber_factor = 525 and calls compute_stress.                          *)
(***************************************************************************)
RunOriginalScript(beta, phi, vf, strain) ==
  /\ ret' = Call("original_script",
                 [angles |-> beta, weights |-> phi, vf |-> vf, strain |-> strain],
                 Return(original_script(beta, phi, vf, strain)))
  /\ UNCHANGED <<model, built>>

NextScript ==
  \/ /\ Fresh
     /\ \E a \in AngleSeqs, w \in WeightSeqs, vf \in VfVals :
          ConstructLegacy(a, w, vf, LegacyDefaultE)
  \/ /\ Built("legacy")
     /\ \E s \in StrainSeqs, wt \in Weightings : CallComputeStress(s, wt)
  \/ /\ Fresh
     /\ \E a \in AngleSeqs, w \in WeightSeqs, vf \in VfVals, s \in StrainSeqs :
          RunOriginalScript(a, w, vf, s)

SpecScript == Init /\ [][NextScript]_vars

(***************************************************************************)
(* C18.  The weighted model with weighting 'cos4' and E_fiber_factor = 525 *)
(* reproduces the original script.  As claimed: for every angle list,      *)
(* weight list, vf and strain for which the model can be built,            *)
(* compute_stress equals the script's sum of                               *)
(* 5.25 * (cos^2 * strain * 100 * vf) * cos^2 * phi, sample by sample.     *)
(***************************************************************************)
Cos4Call == ret.op = "compute_stress" /\ ret.args.weighting = "cos4"

\* the script was run on lists the class accepts
ScriptRun ==
  /\ ret.op = "original_script"
  /\ Len(ret.args.angles) = Len(ret.args.weights)
  /\ VfInRange(ret.args.vf)

\* compute_stress of the model built from the script's lists
ModelOfScript ==
  compute_stress(LegacyCompositeModel(ret.args.angles, ret.args.weights, ret.args.vf,
                                      LegacyDefaultE).val,
                 ret.args.strain, "cos4").val

RECURSIVE TermAbsTo(_, _, _, _, _)
TermAbsTo(beta, phi, vf, eps, n) ==
  IF n = 0 THEN Zero
  ELSE XAdd(TermAbsTo(beta, phi, vf, eps, n - 1),
            FAbs(script_term(cos_sq(beta)[n], phi[n], vf, eps)))

\* the two curves agree sample by sample to (2 * n_angles + 16) * 2^-Prec
\* times the sum of the magnitudes of the script's terms
CurvesAgree(a, b, beta, phi, vf, strain) ==
  /\ Len(a) = Len(strain)
  /\ Len(b) = Len(strain)
  /\ \A j \in 1..Len(strain) :
       Within(a[j], b[j], 2 * Len(beta) + 16, TermAbsTo(beta, phi, vf, strain[j], Len(beta)))

C18_ScriptAgreesExactly ==
  /\ ScriptRun
  /\ Len(ret.args.angles) >= 1
  /\ Len(ret.args.strain) >= 1
  /\ FLt(Zero, ret.args.vf)
  /\ ret.val = ModelOfScript


(***************************************************************************)
(* The analysis procedures of the package called with a model_type: the    *)
(* caller has chosen the arguments and calls vf_sweep or                   *)
(* monte_carlo_uncertainty with them.                                      *)
(***************************************************************************)
NextTypes ==
  \/ /\ Fresh
     /\ \E n_iter \in 0..MaxIter :
          \E noise \in NoiseSeqs(n_iter, Len(ret.args.weights)) : MonteCarlo(noise)
  \/ /\ Fresh
     /\ \E vfs \in VfSeqs :
          VfSweep(ret.args.angles, ret.args.weights, vfs, ret.args.strain,
                  ret.args.model_type)

SpecTypes == InitMC /\ [][NextTypes]_vars

(***************************************************************************)
(* C19.  The analysis procedures of the package produce a curve only for   *)
(* model_type 'weighted'.  As claimed: for any other model_type vf_sweep   *)
(* raises no error and returns an empty mapping, and                       *)
(* monte_carlo_uncertainty with n_iter >= 1 fails on its first trial       *)
(* without returning a curve; neither rejects the model_type up front.     *)
(***************************************************************************)
OtherType(op) == ret.op = op /\ ret.args.model_type # "weighted"

\* at most one model was built, and no curve returned
FailsOnFirstTrial ==
  /\ ret.err # NoErr
  /\ ret.val = <<>>
  /\ Len(built) <= 1

Orig_C19_OnlyWeightedYieldsCurves ==
  /\ OtherType("vf_sweep") => (ret.err = NoErr /\ ret.val = <<>>)
  /\ (OtherType("monte_carlo_uncertainty") /\ ret.args.n_iter >= 1) => FailsOnFirstTrial
  /\ (OtherType("monte_carlo_uncertainty") /\ ret.args.n_iter = 0) => ret.err = NoErr

\* the constructor accepts the angles and weights with every vf of the sweep
SweepInputsValid ==
  /\ Len(ret.args.angles) = Len(ret.args.weights)
  /\ \A n \in 1..Len(ret.args.vfs) : VfInRange(ret.args.vfs[n])

(***************************************************************************)
(* C19, amended.  For any other model_type, vf_sweep on angles and weights *)
(* of equal length and vf values in [0, 1] raises no error and returns an  *)
(* empty mapping, having built a model per vf; on other inputs it raises   *)
(* the constructor's ValueError as it does for 'weighted'.                 *)
(* monte_carlo_uncertainty with n_iter >= 1 fails on its first trial       *)
(* without returning a curve: with the UnboundLocalError of `stress` once  *)
(* the trial's model is built, with the constructor's ValueError           *)
(* otherwise.  Neither rejects the model_type up front: an empty sweep and *)
(* n_iter = 0 return without error.                                        *)
(***************************************************************************)
Thm_C19_OnlyWeightedYieldsCurves ==
  /\ OtherType("vf_sweep") =>
       /\ ret.val = <<>>
       /\ IF SweepInputsValid
            THEN ret.err = NoErr /\ Len(built) = Len(ret.args.vfs)
            ELSE IF Len(ret.args.vfs) = 0 THEN ret.err = NoErr
            ELSE ret.err \in {ErrLength, ErrVf}
  /\ (OtherType("monte_carlo_uncertainty") /\ ret.args.n_iter >= 1) =>
       /\ FailsOnFirstTrial
       /\ IF Len(ret.args.angles) = Len(ret.args.weights) /\ VfInRange(ret.args.vf)
            THEN ret.err = ErrUnbound /\ Len(built) = 1
            ELSE ret.err \in {ErrLength, ErrVf} /\ Len(built) = 0
  /\ (OtherType("monte_carlo_uncertainty") /\ ret.args.n_iter = 0) =>
       (ret.err = NoErr /\ ret.val = np_array(<<>>))
  /\ (ret.op \in {"vf_sweep", "monte_carlo_uncertainty"} /\ ret.err = NoErr
        /\ ret.args.model_type = "weighted" /\ Len(built) >= 1) => ret.val # <<>>

\* a sweep of two valid vf values under another model_type: two models
\* built, nothing returned for either
Wit_C19_EmptyMapping ==
  /\ OtherType("vf_sweep")
  /\ ret.args.vfs = <<Lit(1, 10), One>>
  /\ Len(ret.args.strain) = 2
  /\ Len(ret.args.angles) = 2
  /\ ret.err = NoErr
  /\ ret.val = <<>>
  /\ Len(built) = 2

\* two trials asked for under another model_type: the first one fails
C19_FirstTrialFails ==
  /\ OtherType("monte_carlo_uncertainty")
  /\ ret.args.n_iter = 2
  /\ ret.err = ErrUnbound
  /\ Len(built) = 1

\* a sweep under another model_type stopped by a vf above 1
C19_SweepRaises ==
  /\ OtherType("vf_sweep")
  /\ Len(ret.args.angles) = Len(ret.args.weights)
  /\ ret.err = ErrVf

====
